---- MODULE Spec2Model ----
(***************************************************************************)
(* Model of src/BNG/self_driving/beamng_member.py: the road genome         *)
(* (BeamNGMember) with its evaluation cache, and the mutation operator     *)
(* (RoadMutator) with its per-gene undo/retry loop.                        *)
(*                                                                         *)
(* Python sequences are 0-based, TLA+ sequences 1-based: the control point *)
(* control_nodes[i] of the source is control_nodes[i + 1] here; gene       *)
(* indices (gene_index, attempted_genes) keep the source's 0-based values. *)
(* A control point is <<x, y, z, width>>; the coordinate slot c of the     *)
(* source (0 = x, 1 = y) is tuple position c + 1.                          *)
(***************************************************************************)
EXTENDS Integers, Sequences, FiniteSets, TLC

(* ------------------------------ bounds -------------------------------- *)

\* longest road (number of control points) a behaviour starts from
MaxLen == 9
\* largest MUTATION_EXTENT / largest |lower_bound|, |upper_bound|
MaxExtent == 1
\* largest num_undo_attempts passed to RoadMutator.mutate
MaxUndoAttempts == 1
\* number of public calls (operations) one behaviour may start
MaxCalls == 3
\* how many of them may be mutate or mutate_gene calls
MaxMutations == 1
\* number of genomes that may exist (the first one and its clones)
MaxMembers == 2

\* an unset optional value; a set one is the one-element sequence <<v>>
None == << >>

Some(v) == << v >>

Lens == 6..MaxLen
Members == 1..MaxMembers

(* --------------------------- pure helpers ----------------------------- *)

\* the road the generator hands over: points 10 apart on the x axis
InitialNodes(len) == [i \in 1..len |-> <<10 * (i - 1), 0, -28, 8>>]

\* one coordinate of the uniform Catmull-Rom point at t = j / k on the
\* segment p1 -> p2, scaled by 2 * k^3 so that it stays an integer
CRCoord(p0, p1, p2, p3, j, k) ==
    2 * p1 * k * k * k
    + (p2 - p0) * j * k * k
    + (2 * p0 - 5 * p1 + 4 * p2 - p3) * j * j * k
    + (3 * p1 - p0 - 3 * p2 + p3) * j * j * j

\* catmull_rom(control_nodes, num_spline_nodes): k samples for every window
\* of four consecutive control points
catmull_rom(nodes, k) ==
    IF Len(nodes) < 4 THEN << >>
    ELSE [s \in 1..((Len(nodes) - 3) * k) |->
            LET i == ((s - 1) \div k) + 1
                j == (s - 1) % k
            IN  << CRCoord(nodes[i][1], nodes[i+1][1], nodes[i+2][1], nodes[i+3][1], j, k),
                   CRCoord(nodes[i][2], nodes[i+1][2], nodes[i+2][2], nodes[i+3][2], j, k),
                   nodes[i+1][3], nodes[i+1][4] >>]

\* "if mut_value == 0: mut_value += 1"
AvoidZero_NoBump(v) == v

AvoidZero(v) == IF v = 0 THEN v + 1 ELSE v

\* the values random.randint(a, b) can return
randint(a, b) == a..b

\* the indices next_gene_index draws from: random.randint(3, n-3)
GeneDraws_FromTwo(n) == randint(2, n - 3)

GeneDraws(n) == randint(3, n - 3)

\* the index next_gene_index hands back: "while i in attempted_genes" draws again
FreshDraws_Any(n, attempted) == GeneDraws(n)

FreshDraws(n, attempted) == GeneDraws(n) \ attempted

\* "if len(attempted_genes) == n - 5: return -1"
IndexSpaceExhausted_OffByOne(attempted, n) == Cardinality(attempted) = n - 4

IndexSpaceExhausted(attempted, n) == Cardinality(attempted) = n - 5

\* gene[c] += delta on control point index (0-based), as a new node list
WithGene(nodes, index, c, delta) ==
    [nodes EXCEPT ![index + 1] = [@ EXCEPT ![c + 1] = @ + delta]]


(* ------------------------------ state --------------------------------- *)

VARIABLES
    members,          \* genome id -> BeamNGMember fields (ids above counter unused)
    counter,          \* BeamNGMember.counter
    MUTATION_EXTENT,  \* problem.config.MUTATION_EXTENT
    INVALID,          \* Config.INVALID
    oracle,           \* genome id -> what is_valid() answers for its current geometry
    eval_calls,       \* calls the external evaluator has received
    pc,               \* position inside RoadMutator.mutate ("idle" outside a call)
    mutator,          \* the RoadMutator: road, lower_bound, higher_bound
    frame,            \* locals of RoadMutator.mutate
    via_member,       \* the running mutate was entered through BeamNGMember.mutate
    calls,            \* public calls started so far
    mutations,        \* mutate and mutate_gene calls started so far
    last_op,          \* the call that completed last, with what it returned
    hist              \* values at the start of the running/last call, and its counts

vars == << members, counter, MUTATION_EXTENT, INVALID, oracle, eval_calls,
           pc, mutator, frame, via_member, calls, mutations, last_op, hist >>

NoMember ==
    [control_nodes |-> << >>, sample_nodes |-> << >>, num_spline_nodes |-> 0,
     road_bbox |-> "None", problem |-> "None",
     simulation |-> None, distance_to_boundary |-> None, nodes_id |-> 0]

\* BeamNGMember.__init__ (fields the model follows). control_nodes is the
\* content of the Python list the genome holds and nodes_id the identity of
\* that list object: genomes with the same nodes_id hold the same list, and
\* an item assignment through one of them is seen through all of them.
NewBeamNGMember(control_nodes, sample_nodes, num_spline_nodes, road_bbox) ==
    [control_nodes |-> control_nodes, sample_nodes |-> sample_nodes,
     num_spline_nodes |-> num_spline_nodes, road_bbox |-> road_bbox,
     problem |-> "None", simulation |-> None, distance_to_boundary |-> None,
     nodes_id |-> 0]

NoMutator == [road |-> 0, lower_bound |-> 0, higher_bound |-> 0]

NoFrame ==
    [num_undo_attempts |-> 0, backup_nodes |-> << >>, attempted_genes |-> {},
     n |-> 0, gene_index |-> -1, c |-> 0, mut_value |-> 0, attempt |-> 0,
     is_valid |-> FALSE, flag |-> FALSE, ceiling_hit |-> FALSE, backup_id |-> 0]

NoHist ==
    [control_nodes |-> << >>, sample_nodes |-> << >>,
     distance_to_boundary |-> None, simulation |-> None,
     perturbations |-> 0, failed_checks |-> 0, INVALID |-> 0,
     index |-> -1, gene_before |-> << >>, eval_calls |-> 0, selections |-> 0]

NoOp == [op |-> "none", member |-> 0, result |-> "None"]

Alive(m) == m \in 1..counter

\* the identity list(...) gives the list object it creates: one no genome and
\* no backup_nodes holds
FreshId ==
    CHOOSE i \in 1..(MaxMembers + 2) :
        i \notin ({members[k].nodes_id : k \in 1..counter} \cup {frame.backup_id})

Init ==
    /\ \E len \in Lens, k \in {2} :
         members = [m \in Members |->
                      IF m = 1
                      THEN [NewBeamNGMember(InitialNodes(len),
                                            catmull_rom(InitialNodes(len), k),
                                            k, "bbox")
                              EXCEPT !.problem = "problem", !.nodes_id = 1]
                      ELSE NoMember]
    /\ counter = 1
    /\ MUTATION_EXTENT \in 0..MaxExtent
    /\ INVALID = 0
    /\ oracle = [m \in Members |-> "unknown"]
    /\ eval_calls = 0
    /\ pc = "idle"
    /\ mutator = NoMutator
    /\ frame = NoFrame
    /\ via_member = FALSE
    /\ calls = 0
    /\ mutations = 0
    /\ last_op = NoOp
    /\ hist = NoHist

(* ----------------------- BeamNGMember: the cache ----------------------- *)

\* needs_evaluation (lines 81-82)
needs_evaluation(mbr) ==
    mbr.distance_to_boundary = None \/ mbr.simulation = None

\* the fields clone() builds the new genome from (lines 49-53)
clone_SharingCache(mbr) ==
    [mbr EXCEPT !.control_nodes = mbr.control_nodes]

\* BeamNGMember(self.control_nodes, ...) without the list() copy
clone_SharingNodes(mbr) ==
    [NewBeamNGMember(mbr.control_nodes, mbr.sample_nodes,
                     mbr.num_spline_nodes, mbr.road_bbox)
       EXCEPT !.problem = mbr.problem, !.nodes_id = mbr.nodes_id]

clone_of(mbr) ==
    [NewBeamNGMember(mbr.control_nodes, mbr.sample_nodes,
                     mbr.num_spline_nodes, mbr.road_bbox)
       EXCEPT !.problem = mbr.problem, !.nodes_id = FreshId]

\* clear_evaluation (lines 84-85)
clear_evaluation_Both(mbr) ==
    [mbr EXCEPT !.distance_to_boundary = None, !.simulation = None]

clear_evaluation_of(mbr) == [mbr EXCEPT !.distance_to_boundary = None]

MutateIdle ==
    /\ pc = "idle" /\ pc' = "idle"
    /\ UNCHANGED << mutator, frame, via_member, INVALID, MUTATION_EXTENT, mutations >>

clone(m) ==
    /\ MutateIdle
    /\ Alive(m) /\ counter < MaxMembers /\ calls < MaxCalls
    /\ counter' = counter + 1
    /\ members' = [members EXCEPT ![counter + 1] = clone_of(members[m])]
    /\ oracle' = [oracle EXCEPT ![counter + 1] = oracle[m]]
    /\ calls' = calls + 1
    /\ last_op' = [op |-> "clone", member |-> m, result |-> "clone"]
    /\ hist' = NoHist
    /\ UNCHANGED eval_calls

\* evaluate (lines 74-77); the evaluator sets distance_to_boundary on the
\* genome and returns the simulation result
evaluate(m) ==
    /\ MutateIdle
    /\ Alive(m) /\ calls < MaxCalls
    /\ IF needs_evaluation(members[m])
       THEN /\ eval_calls' = eval_calls + 1
            /\ \E d \in {-1, 2} :
                 members' = [members EXCEPT ![m].distance_to_boundary = Some(d),
                                            ![m].simulation = Some(eval_calls + 1)]
       ELSE UNCHANGED << eval_calls, members >>
    /\ calls' = calls + 1
    /\ last_op' = [op |-> "evaluate", member |-> m, result |-> "None"]
    /\ hist' = [NoHist EXCEPT !.distance_to_boundary = members[m].distance_to_boundary,
                              !.simulation = members[m].simulation,
                              !.eval_calls = eval_calls]
    /\ UNCHANGED << counter, oracle >>

clear_evaluation(m) ==
    /\ MutateIdle
    /\ Alive(m) /\ calls < MaxCalls
    /\ members' = [members EXCEPT ![m] = clear_evaluation_of(members[m])]
    /\ calls' = calls + 1
    /\ last_op' = [op |-> "clear_evaluation", member |-> m, result |-> "None"]
    /\ hist' = [NoHist EXCEPT !.distance_to_boundary = members[m].distance_to_boundary,
                              !.simulation = members[m].simulation]
    /\ UNCHANGED << counter, oracle, eval_calls >>


(* ----------------------------- RoadMutator ----------------------------- *)

\* is_valid (lines 87-89) consults RoadPolygon and the bounding box, which
\* are pure: the answer for an unchanged geometry is the answer already
\* given, for a new geometry it is either
ValidOutcomes(m) ==
    IF oracle[m] = "unknown" THEN BOOLEAN ELSE {oracle[m] = "valid"}

\* the oracle's entry once genome old has become genome new
Touched(old, new, known) ==
    IF old.control_nodes = new.control_nodes /\ old.sample_nodes = new.sample_nodes
    THEN known ELSE "unknown"

Answered(v) == IF v THEN "valid" ELSE "invalid"

\* mutate_gene (lines 127-140) with the two random draws as inputs:
\* drawn = random.randint(lower_bound, higher_bound), coin = (random.random() < xy_prob)
mutate_gene(road, index, drawn, coin) ==
    LET mut_value == AvoidZero(drawn)
        c == IF coin THEN 1 ELSE 0
        nodes == WithGene(road.control_nodes, index, c, mut_value)
    IN  [road |-> [road EXCEPT !.control_nodes = nodes,
                               !.sample_nodes = catmull_rom(nodes, road.num_spline_nodes)],
         c |-> c, mut_value |-> mut_value]

\* undo_mutation (lines 142-146)
undo_mutation_StaleSamples(road, index, c, mut_value) ==
    [road EXCEPT !.control_nodes = WithGene(road.control_nodes, index, c, 0 - mut_value)]

undo_mutation(road, index, c, mut_value) ==
    LET nodes == WithGene(road.control_nodes, index, c, 0 - mut_value)
    IN  [road EXCEPT !.control_nodes = nodes,
                     !.sample_nodes = catmull_rom(nodes, road.num_spline_nodes)]

\* "self.road.control_nodes = backup_nodes" (lines 190 and 196)
RestoreBackup_Keep(road, backup_nodes) == road

RestoreBackup(road, backup_nodes) == [road EXCEPT !.control_nodes = backup_nodes]

\* "self.road.is_valid() and self.road.control_nodes != backup_nodes" (line 193)
MutationApplied_ValidOnly(valid, control_nodes, backup_nodes) == valid

MutationApplied(valid, control_nodes, backup_nodes) ==
    valid /\ control_nodes # backup_nodes

\* "self.road.control_nodes = backup_nodes" also makes the genome hold the
\* list object backup_nodes
Rebound(road, id) == [road EXCEPT !.nodes_id = id]

Road == members[mutator.road]

\* the genomes once genome m has become new: a genome holding the same list
\* object as new sees new's control_nodes
Written(m, new) ==
    [k \in Members |->
        IF k = m THEN new
        ELSE IF Alive(k) /\ members[k].nodes_id = new.nodes_id
             THEN [members[k] EXCEPT !.control_nodes = new.control_nodes]
             ELSE members[k]]

OracleAfter(m, new) ==
    [k \in Members |-> Touched(members[k], Written(m, new)[k], oracle[k])]

SetRoad(new) ==
    /\ members' = Written(mutator.road, new)
    /\ oracle' = OracleAfter(mutator.road, new)

\* the road changes to new and is_valid() is then evaluated with answer v
SetRoadAndCheck(new, v) ==
    /\ v \in (IF Touched(Road, new, oracle[mutator.road]) = "unknown"
              THEN BOOLEAN
              ELSE {Touched(Road, new, oracle[mutator.road]) = "valid"})
    /\ members' = Written(mutator.road, new)
    /\ oracle' = [OracleAfter(mutator.road, new) EXCEPT ![mutator.road] = Answered(v)]

Globals == << counter, MUTATION_EXTENT, eval_calls >>

MayMutate == calls < MaxCalls /\ mutations < MaxMutations

StartHist(m) ==
    [NoHist EXCEPT !.control_nodes = members[m].control_nodes,
                   !.sample_nodes = members[m].sample_nodes,
                   !.distance_to_boundary = members[m].distance_to_boundary,
                   !.simulation = members[m].simulation,
                   !.INVALID = INVALID]

\* RoadMutator.__init__ (lines 122-125) and the head of mutate (lines 148-151)
StartMutate(m, lower_bound, upper_bound, num_undo_attempts) ==
    /\ pc = "idle" /\ Alive(m) /\ MayMutate
    /\ mutations' = mutations + 1
    /\ mutator' = [road |-> m, lower_bound |-> lower_bound, higher_bound |-> upper_bound]
    /\ frame' = [NoFrame EXCEPT !.num_undo_attempts = num_undo_attempts,
                                !.backup_nodes = members[m].control_nodes,
                                !.backup_id = FreshId,
                                !.n = Len(members[m].control_nodes) - 2]
    /\ pc' = "select"
    /\ calls' = calls + 1
    /\ hist' = StartHist(m)
    /\ UNCHANGED << members, oracle, INVALID, last_op, Globals >>

\* BeamNGMember.mutate (line 100): bounds -MUTATION_EXTENT..MUTATION_EXTENT from
\* the configuration; the budget is mutate's default num_undo_attempts (10 in
\* the source), drawn here from 0..MaxUndoAttempts
BeamNGMember_mutate(m) ==
    /\ \E num_undo_attempts \in 0..MaxUndoAttempts :
         StartMutate(m, 0 - MUTATION_EXTENT, MUTATION_EXTENT, num_undo_attempts)
    /\ via_member' = TRUE

\* RoadMutator(road, lower_bound, upper_bound).mutate(num_undo_attempts)
RoadMutator_mutate(m) ==
    /\ \E lower_bound \in (0 - MaxExtent)..MaxExtent, upper_bound \in (0 - MaxExtent)..MaxExtent,
          num_undo_attempts \in 0..MaxUndoAttempts :
         /\ lower_bound <= upper_bound
         /\ StartMutate(m, lower_bound, upper_bound, num_undo_attempts)
    /\ via_member' = FALSE

InCall == << mutator, via_member, calls, mutations, last_op, Globals >>

\* next_gene_index, line 153-154: every eligible index has been attempted
next_gene_index_exhausted ==
    /\ pc = "select"
    /\ IndexSpaceExhausted(frame.attempted_genes, frame.n)
    /\ frame' = [frame EXCEPT !.gene_index = -1]
    /\ pc' = "exit"
    /\ UNCHANGED << members, oracle, INVALID, hist, InCall >>

\* next_gene_index, line 155: random.randint(3, n-3) on an empty range raises
next_gene_index_raises ==
    /\ pc = "select"
    /\ ~ IndexSpaceExhausted(frame.attempted_genes, frame.n)
    /\ GeneDraws(frame.n) = {}
    /\ pc' = "raised"
    /\ UNCHANGED << members, oracle, INVALID, frame, hist, InCall >>

\* next_gene_index, lines 155-165: a draw that is not in attempted_genes
next_gene_index_draws ==
    /\ pc = "select"
    /\ ~ IndexSpaceExhausted(frame.attempted_genes, frame.n)
    /\ \E i \in FreshDraws(frame.n, frame.attempted_genes) :
         frame' = [frame EXCEPT !.attempted_genes = @ \cup {i}, !.gene_index = i]
    /\ hist' = [hist EXCEPT !.selections = @ + 1]
    /\ pc' = "mutate"
    /\ UNCHANGED << members, oracle, INVALID, InCall >>

\* next_gene_index, lines 157-162: more than 1000000 draws in a row collide
next_gene_index_gives_up ==
    /\ pc = "select"
    /\ ~ IndexSpaceExhausted(frame.attempted_genes, frame.n)
    /\ GeneDraws(frame.n) \cap frame.attempted_genes # {}
    /\ frame' = [frame EXCEPT !.gene_index = -1, !.ceiling_hit = TRUE]
    /\ pc' = "exit"
    /\ UNCHANGED << members, oracle, INVALID, hist, InCall >>

\* one mutate_gene on the current gene followed by is_valid()
PerturbAndCheck(next_attempt) ==
    \E drawn \in randint(mutator.lower_bound, mutator.higher_bound),
       coin \in BOOLEAN, v \in BOOLEAN :
        LET r == mutate_gene(Road, frame.gene_index, drawn, coin)
        IN  /\ SetRoadAndCheck(r.road, v)
            /\ frame' = [frame EXCEPT !.c = r.c, !.mut_value = r.mut_value,
                                      !.attempt = next_attempt, !.is_valid = v]
            /\ hist' = [hist EXCEPT !.perturbations = @ + 1,
                                    !.failed_checks = IF v THEN @ ELSE @ + 1,
                                    !.index = frame.gene_index,
                                    !.gene_before = Road.control_nodes[frame.gene_index + 1]]

\* lines 170-174
loop_mutate ==
    /\ pc = "mutate"
    /\ PerturbAndCheck(0)
    /\ pc' = "check"
    /\ UNCHANGED << INVALID, InCall >>

\* "attempted < num_undo_attempts" of the while condition, line 175
BudgetLeft_OneMore(attempt, num_undo_attempts) == attempt <= num_undo_attempts

BudgetLeft(attempt, num_undo_attempts) == attempt < num_undo_attempts

\* lines 175-177
loop_undo ==
    /\ pc = "check"
    /\ ~ frame.is_valid /\ BudgetLeft(frame.attempt, frame.num_undo_attempts)
    /\ INVALID' = INVALID + 1
    /\ SetRoad(undo_mutation(Road, frame.gene_index, frame.c, frame.mut_value))
    /\ pc' = "undone"
    /\ UNCHANGED << frame, hist, InCall >>

\* lines 178-180
loop_retry ==
    /\ pc = "undone"
    /\ PerturbAndCheck(frame.attempt + 1)
    /\ pc' = "check"
    /\ UNCHANGED << INVALID, InCall >>

\* lines 182-183
loop_break ==
    /\ pc = "check"
    /\ frame.is_valid
    /\ pc' = "exit"
    /\ UNCHANGED << members, oracle, INVALID, frame, hist, InCall >>

\* lines 184-185, up to the call of next_gene_index
loop_next_gene ==
    /\ pc = "check"
    /\ ~ frame.is_valid /\ ~ BudgetLeft(frame.attempt, frame.num_undo_attempts)
    /\ pc' = "select"
    /\ UNCHANGED << members, oracle, INVALID, frame, hist, InCall >>

\* lines 187-190
exit_restore ==
    /\ pc = "exit"
    /\ IF frame.gene_index = -1
       THEN SetRoad(Rebound(RestoreBackup(Road, frame.backup_nodes), frame.backup_id))
       ELSE UNCHANGED << members, oracle >>
    /\ pc' = "final"
    /\ UNCHANGED << INVALID, frame, hist, InCall >>

\* lines 193-197
final_check ==
    /\ pc = "final"
    /\ \E v \in ValidOutcomes(mutator.road) :
         IF MutationApplied(v, Road.control_nodes, frame.backup_nodes)
         THEN /\ frame' = [frame EXCEPT !.flag = TRUE]
              /\ members' = members
              /\ oracle' = [oracle EXCEPT ![mutator.road] = Answered(v)]
         ELSE LET new == Rebound(RestoreBackup(Road, frame.backup_nodes), frame.backup_id)
              IN  /\ frame' = [frame EXCEPT !.flag = FALSE]
                  /\ members' = Written(mutator.road, new)
                  /\ oracle' = [OracleAfter(mutator.road, new) EXCEPT
                                  ![mutator.road] = Touched(Road, new, Answered(v))]
    /\ pc' = "returned"
    /\ UNCHANGED << INVALID, hist, InCall >>


\* what BeamNGMember.mutate does with the flag (lines 101-105)
after_mutate_KeepCache(mbr, flag) == mbr

after_mutate(mbr, flag) == [mbr EXCEPT !.distance_to_boundary = None]

Leave ==
    /\ pc' = "idle"
    /\ mutator' = NoMutator
    /\ frame' = NoFrame
    /\ via_member' = FALSE

\* BeamNGMember.mutate, lines 101-105
BeamNGMember_mutate_returns ==
    /\ pc = "returned" /\ via_member
    /\ members' = [members EXCEPT ![mutator.road] = after_mutate(Road, frame.flag)]
    /\ last_op' = [op |-> "mutate", member |-> mutator.road,
                   result |-> IF frame.flag THEN "self" ELSE "None"]
    /\ Leave
    /\ UNCHANGED << oracle, INVALID, calls, mutations, hist, Globals >>

\* RoadMutator.mutate called on its own hands back the flag (lines 194, 197)
RoadMutator_mutate_returns ==
    /\ pc = "returned" /\ ~ via_member
    /\ last_op' = [op |-> "RoadMutator.mutate", member |-> mutator.road,
                   result |-> IF frame.flag THEN "True" ELSE "False"]
    /\ Leave
    /\ UNCHANGED << members, oracle, INVALID, calls, mutations, hist, Globals >>

\* the ValueError of random.randint leaves mutate (and BeamNGMember.mutate,
\* before its line 101) and reaches the caller
mutate_raises ==
    /\ pc = "raised"
    /\ last_op' = [op |-> IF via_member THEN "mutate" ELSE "RoadMutator.mutate",
                   member |-> mutator.road, result |-> "ValueError"]
    /\ Leave
    /\ UNCHANGED << members, oracle, INVALID, calls, mutations, hist, Globals >>

\* RoadMutator(road, lower_bound, upper_bound).mutate_gene(index) called on its own
mutate_gene_applied(m, index) ==
    /\ pc = "idle" /\ pc' = "idle"
    /\ UNCHANGED << mutator, frame, via_member, INVALID, MUTATION_EXTENT >>
    /\ Alive(m) /\ calls < MaxCalls
    /\ mutations' = mutations + 1
    /\ index \in 0..(Len(members[m].control_nodes) - 1)
    /\ \E drawn \in randint(0 - MaxExtent, MaxExtent), coin \in BOOLEAN :
         LET r == mutate_gene(members[m], index, drawn, coin)
         IN  /\ members' = Written(m, r.road)
             /\ oracle' = OracleAfter(m, r.road)
             /\ last_op' = [op |-> "mutate_gene", member |-> m, result |-> "None",
                            index |-> index, c |-> r.c, mut_value |-> r.mut_value]
             /\ hist' = [StartHist(m) EXCEPT !.perturbations = 1,
                                              !.index = index,
                                              !.gene_before = members[m].control_nodes[index + 1]]
    /\ calls' = calls + 1
    /\ UNCHANGED << counter, eval_calls >>

mutate_gene_call(m, index) == MayMutate /\ mutate_gene_applied(m, index)

\* the same call made on a genome whose mutate has just reported failure
mutate_gene_after_failure(m, index) ==
    /\ last_op.op \in {"mutate", "RoadMutator.mutate"}
    /\ last_op.result \in {"None", "False"}
    /\ last_op.member = m
    /\ mutate_gene_applied(m, index)

\* undo_mutation(index, c, mut_value) called on its own, with what the
\* preceding mutate_gene returned
undo_mutation_call(m) ==
    /\ MutateIdle
    /\ Alive(m) /\ calls < MaxCalls
    /\ last_op.op = "mutate_gene" /\ last_op.member = m
    /\ LET new == undo_mutation(members[m], last_op.index, last_op.c, last_op.mut_value)
       IN  /\ members' = Written(m, new)
           /\ oracle' = OracleAfter(m, new)
    /\ last_op' = [op |-> "undo_mutation", member |-> m, result |-> "None"]
    /\ hist' = hist
    /\ calls' = calls + 1
    /\ UNCHANGED << counter, eval_calls >>

Next ==
    \/ \E m \in Members : clone(m)
    \/ \E m \in Members : evaluate(m)
    \/ \E m \in Members : clear_evaluation(m)
    \/ \E m \in Members : BeamNGMember_mutate(m)
    \/ \E m \in Members : RoadMutator_mutate(m)
    \/ \E m \in Members, index \in 0..(MaxLen - 1) : mutate_gene_call(m, index)
    \/ \E m \in Members : undo_mutation_call(m)
    \/ next_gene_index_exhausted
    \/ next_gene_index_raises
    \/ next_gene_index_draws
    \/ next_gene_index_gives_up
    \/ loop_mutate
    \/ loop_undo
    \/ loop_retry
    \/ loop_break
    \/ loop_next_gene
    \/ exit_restore
    \/ final_check
    \/ BeamNGMember_mutate_returns
    \/ RoadMutator_mutate_returns
    \/ mutate_raises

Spec == Init /\ [][Next]_vars

\* the steps of a running mutate call
Step ==
    \/ next_gene_index_exhausted
    \/ next_gene_index_raises
    \/ next_gene_index_draws
    \/ next_gene_index_gives_up
    \/ loop_mutate
    \/ loop_undo
    \/ loop_retry
    \/ loop_break
    \/ loop_next_gene
    \/ exit_restore
    \/ final_check
    \/ mutate_raises

\* BeamNGMember.mutate, then mutate_gene and undo_mutation on the genome it
\* failed on
NextAfterFailure ==
    \/ \E m \in Members : BeamNGMember_mutate(m)
    \/ Step
    \/ BeamNGMember_mutate_returns
    \/ \E m \in Members, index \in 0..(MaxLen - 1) : mutate_gene_after_failure(m, index)
    \/ \E m \in Members : undo_mutation_call(m)

SpecAfterFailure == Init /\ [][NextAfterFailure]_vars

\* a call of mutate that has started keeps running: the interpreter executes
\* its next statement, the return included
Running == Step \/ BeamNGMember_mutate_returns \/ RoadMutator_mutate_returns

\* one call of mutate on the genome the program starts with, run to its end
NextOneCall ==
    \/ \E m \in Members : BeamNGMember_mutate(m)
    \/ \E m \in Members : RoadMutator_mutate(m)
    \/ Running

SpecTerminating == Init /\ [][NextOneCall]_vars /\ WF_vars(Running)


(* ------------------------------ claims -------------------------------- *)

InMutate == pc # "idle"

\* the state right after a mutate call has handed back its result
Returned ==
    /\ pc = "idle"
    /\ last_op.op \in {"mutate", "RoadMutator.mutate"}
    /\ last_op.result # "ValueError"

Failed == Returned /\ last_op.result \in {"None", "False"}

Succeeded == Returned /\ last_op.result \in {"self", "True"}

Target == members[last_op.member]

Consistent(mbr) ==
    mbr.sample_nodes = catmull_rom(mbr.control_nodes, mbr.num_spline_nodes)

\* C1: when RoadMutator.mutate returns False (BeamNGMember.mutate returns
\* None), control_nodes equal the control_nodes the call started from.
C1_FailureRestoresControlNodes ==
    /\ (pc = "returned" /\ ~ frame.flag) => Road.control_nodes = hist.control_nodes
    /\ Failed => Target.control_nodes = hist.control_nodes

C1_Witness == Failed /\ hist.perturbations > 0 /\ hist.failed_checks > 0

\* C2: when mutate reports failure after having perturbed at least one gene,
\* sample_nodes equal the sample_nodes the call started from.
C2_FailureRestoresSampleNodes ==
    (Failed /\ hist.perturbations > 0) => Target.sample_nodes = hist.sample_nodes

\* C3: between calls, every genome's sample_nodes are the interpolation of its
\* control_nodes.
C3_SamplesDerivedFromControlNodes ==
    pc = "idle" => \A m \in 1..counter : Consistent(members[m])

Anchors(len) == {1, 2, 3, len - 2, len - 1, len}

AnchorsKept(nodes, before) ==
    /\ Len(nodes) = Len(before)
    /\ \A i \in Anchors(Len(before)) : nodes[i] = before[i]

\* C4: on a road of at least 7 control points, in every state of a mutate call
\* and after it, the first three and the last three control points are the
\* ones the call started from.
C4_AnchorStability ==
    /\ (InMutate /\ Len(hist.control_nodes) >= 7)
         => AnchorsKept(Road.control_nodes, hist.control_nodes)
    /\ ((Returned \/ (pc = "idle" /\ last_op.result = "ValueError"))
          /\ Len(hist.control_nodes) >= 7)
         => AnchorsKept(Target.control_nodes, hist.control_nodes)

C4_Witness ==
    /\ InMutate
    /\ Len(hist.control_nodes) >= 7
    /\ Cardinality(frame.attempted_genes) = 2
    /\ Road.control_nodes # hist.control_nodes

\* C5: when BeamNGMember.mutate returns None, distance_to_boundary and the
\* simulation result are what they were before the call.
C5_FailureKeepsCache ==
    (Returned /\ last_op.op = "mutate" /\ last_op.result = "None")
        => /\ Target.distance_to_boundary = hist.distance_to_boundary
           /\ Target.simulation = hist.simulation

SuccessState(mbr, valid, before) ==
    /\ valid = "valid"
    /\ mbr.control_nodes # before
    /\ mbr.distance_to_boundary = None
    /\ Consistent(mbr)

\* C6: BeamNGMember.mutate returns the genome exactly when the genome is
\* valid, its control_nodes differ from the snapshot, distance_to_boundary is
\* unset and sample_nodes are the interpolation of control_nodes; otherwise a
\* returning call returns None.
C6_SuccessCondition ==
    (Returned /\ last_op.op = "mutate")
        => /\ last_op.result \in {"self", "None"}
           /\ last_op.result = "self"
                <=> SuccessState(Target, oracle[last_op.member], hist.control_nodes)

C6_Witness ==
    /\ Succeeded /\ last_op.op = "mutate"
    /\ hist.failed_checks > 0

\* node is before with mut_value, which is not 0, added to coordinate c only
PerturbedBy(node, before, c, mut_value) ==
    /\ mut_value # 0
    /\ node[c + 1] = before[c + 1] + mut_value
    /\ node[c + 1] # before[c + 1]
    /\ \A k \in (1..4) \ {c + 1} : node[k] = before[k]

\* C7: every perturbation mutate_gene applies has a magnitude other than 0 and
\* changes the chosen coordinate of the chosen control point, and nothing else
\* of that point.
C7_NoZeroMagnitude ==
    /\ pc = "check"
         => PerturbedBy(Road.control_nodes[frame.gene_index + 1], hist.gene_before,
                        frame.c, frame.mut_value)
    /\ (pc = "idle" /\ last_op.op = "mutate_gene")
         => PerturbedBy(Target.control_nodes[last_op.index + 1], hist.gene_before,
                        last_op.c, last_op.mut_value)

\* the only value the range [0, 0] can draw is 0
C7_Witness ==
    /\ pc = "check"
    /\ mutator.lower_bound = 0 /\ mutator.higher_bound = 0
    /\ frame.mut_value = 1

NothingSelected ==
    /\ frame.attempted_genes = {}
    /\ hist.perturbations = 0
    /\ Road.control_nodes = hist.control_nodes

\* mutate on a road of len control points fails at once: no gene is selected
\* or perturbed, nothing is raised, and False (None) comes back
FailsAtOnce(len) ==
    /\ (InMutate /\ Len(hist.control_nodes) = len)
         => /\ NothingSelected
            /\ pc \in {"select", "exit", "final", "returned"}
            /\ pc = "returned" => ~ frame.flag
    /\ (pc = "idle" /\ last_op.op \in {"mutate", "RoadMutator.mutate"}
          /\ Len(hist.control_nodes) = len)
         => /\ last_op.result \in {"None", "False"}
            /\ hist.perturbations = 0
            /\ Target.control_nodes = hist.control_nodes

\* C8 as stated: on a road of exactly 8 control points mutate fails at once,
\* selecting and perturbing no gene.
C8_EightPointsFailAtOnce == FailsAtOnce(8)

\* C8 amended: on a road of exactly 7 control points (n - 5 = 0) mutate fails
\* at once, selecting and perturbing no gene, control_nodes unchanged.
C8_SevenPointsFailAtOnce == FailsAtOnce(7)

C8_Witness == Failed /\ Len(hist.control_nodes) = 7

\* C9: on every road with n - 5 <= 0 (7 control points or fewer) mutate
\* returns failure, raising nothing and perturbing no control point.
C9_ShortRoadsFailQuietly ==
    \A len \in 0..7 : FailsAtOnce(len)

\* C10: a genome just cloned needs evaluation; after evaluate it does not;
\* after clear_evaluation distance_to_boundary is unset, the simulation result
\* is the one it had, and it needs evaluation again.
C10_CacheLifecycle ==
    /\ (pc = "idle" /\ last_op.op = "clone")
         => needs_evaluation(members[counter])
    /\ (pc = "idle" /\ last_op.op = "evaluate")
         => ~ needs_evaluation(Target)
    /\ (pc = "idle" /\ last_op.op = "clear_evaluation")
         => /\ Target.distance_to_boundary = None
            /\ Target.simulation = hist.simulation
            /\ needs_evaluation(Target)

\* an evaluated genome is cloned and then cleared
C10_Witness ==
    /\ pc = "idle" /\ last_op.op = "clear_evaluation" /\ last_op.member = 1
    /\ hist.distance_to_boundary # None
    /\ Target.simulation # None
    /\ counter = 2 /\ needs_evaluation(members[2])


\* C11: evaluate calls the evaluator exactly when the genome needs evaluation
\* at call time, and then stores the new simulation result over the old one;
\* otherwise it calls nothing and leaves the cache as it is. After a mutate
\* that returned, and after clear_evaluation, the genome needs evaluation, so
\* the next evaluate calls the evaluator again.
C11_EvaluateWhenNeeded ==
    /\ (pc = "idle" /\ last_op.op = "evaluate")
         => IF hist.distance_to_boundary = None \/ hist.simulation = None
            THEN /\ eval_calls = hist.eval_calls + 1
                 /\ Target.simulation = Some(eval_calls)
                 /\ Target.simulation # hist.simulation
            ELSE /\ eval_calls = hist.eval_calls
                 /\ Target.simulation = hist.simulation
                 /\ Target.distance_to_boundary = hist.distance_to_boundary
    /\ ((Returned /\ last_op.op = "mutate")
          \/ (pc = "idle" /\ last_op.op = "clear_evaluation"))
         => needs_evaluation(Target)

\* evaluate, mutate, evaluate: the second evaluate replaced the first result
C11_Witness ==
    /\ pc = "idle" /\ last_op.op = "evaluate"
    /\ eval_calls = 2 /\ mutations = 1
    /\ hist.simulation = Some(1)
    /\ Target.simulation = Some(2)


\* every genome but m keeps its control_nodes and sample_nodes in this step
OthersKept(m) ==
    \A k \in 1..counter :
        k # m => /\ members'[k].control_nodes = members[k].control_nodes
                 /\ members'[k].sample_nodes = members[k].sample_nodes

C12_Step ==
    /\ counter' # counter
         => /\ members'[counter'].control_nodes = members[last_op'.member].control_nodes
            /\ members'[counter'].sample_nodes = members[last_op'.member].sample_nodes
            /\ members'[last_op'.member] = members[last_op'.member]
    /\ (pc # "idle" \/ pc' # "idle")
         => OthersKept(IF pc' # "idle" THEN mutator'.road ELSE mutator.road)
    /\ (calls' # calls /\ last_op'.op \in {"mutate_gene", "undo_mutation"})
         => OthersKept(last_op'.member)
    /\ \A k \in 1..counter' : members'[k].road_bbox = members'[1].road_bbox

\* C12: clone gives a genome with the source's control_nodes and sample_nodes
\* and leaves the source as it is; no step of a mutate (or mutate_gene,
\* undo_mutation) call on one genome changes the control_nodes or sample_nodes
\* of another; all genomes refer to the same bounding box.
C12_CloneIndependence == [][C12_Step]_vars

\* the clone was mutated with success, the source is what the clone started as
C12_Witness ==
    /\ counter = 2
    /\ Succeeded /\ last_op.member = 2
    /\ members[2].control_nodes # members[1].control_nodes
    /\ members[1].control_nodes = hist.control_nodes
    /\ members[1].sample_nodes = hist.sample_nodes


\* C13: mutate_gene followed at once by undo_mutation with the index,
\* coordinate and magnitude it returned leaves control_nodes and sample_nodes
\* as they were before the perturbation.
C13_UndoRestoresExactState ==
    (pc = "idle" /\ last_op.op = "undo_mutation")
        => /\ Target.control_nodes = hist.control_nodes
           /\ Target.sample_nodes = hist.sample_nodes


\* the (0-based) indices at which the road differs from what the call started from
PerturbedIndices ==
    {i \in 0..(Len(hist.control_nodes) - 1) :
        Road.control_nodes[i + 1] # hist.control_nodes[i + 1]}

\* in a mutate call every selected and every perturbed index lies in lo..hi
GenesWithin(lo, hi) ==
    InMutate => /\ frame.attempted_genes \subseteq lo..hi
                /\ frame.gene_index \in (lo..hi) \cup {-1}
                /\ Len(Road.control_nodes) = Len(hist.control_nodes)
                /\ PerturbedIndices \subseteq lo..hi

\* C14 as stated: every gene index mutate selects lies in [3, n-4], with
\* n = len(control_nodes) - 2, and no other index is perturbed.
C14_GenesInThreeToNMinusFour == GenesWithin(3, frame.n - 4)

\* C14 amended: every gene index mutate selects lies in [3, n-3], with
\* n = len(control_nodes) - 2, and no other index is perturbed.
C14_GenesInThreeToNMinusThree == GenesWithin(3, frame.n - 3)

\* the index n-3 is selected and perturbed
C14_Witness ==
    /\ pc = "check"
    /\ frame.gene_index = frame.n - 3
    /\ PerturbedIndices = {frame.n - 3}


\* mutate is about to report failure, and not because of the ceiling on
\* colliding draws
ReportsExhaustion == pc = "returned" /\ ~ frame.flag /\ ~ frame.ceiling_hit

\* C15: within one mutate call (on at least 7 control points) no gene index is
\* selected twice, at most n - 5 indices are selected, and, the ceiling on
\* colliding draws aside, failure is reported only after every index of
\* [3, n-3] has been selected and has spent its whole retry budget on
\* invalid perturbations.
C15_SelectionDiscipline ==
    /\ InMutate => /\ Cardinality(frame.attempted_genes) = hist.selections
                   /\ frame.n >= 5 => hist.selections <= frame.n - 5
    /\ ReportsExhaustion =>
           /\ frame.attempted_genes = GeneDraws(frame.n)
           /\ hist.perturbations = hist.selections * (frame.num_undo_attempts + 1)
           /\ hist.failed_checks = hist.perturbations

\* failure reported after two genes were selected and both ran out of budget
C15_Witness ==
    /\ ReportsExhaustion
    /\ hist.selections = 2
    /\ frame.num_undo_attempts = 1
    /\ hist.failed_checks = 4


\* perturbations spent on the genes selected before the current one
SpentOnEarlierGenes == (hist.selections - 1) * (frame.num_undo_attempts + 1)

\* C16: each selected gene gets one perturbation and at most num_undo_attempts
\* undo-and-retry rounds, all on that same index; the search selects another
\* index only after the whole budget went into invalid attempts, and nothing
\* is perturbed after the first valid attempt.
C16_RetryBudget ==
    InMutate =>
        /\ frame.attempt \in 0..frame.num_undo_attempts
        /\ hist.perturbations - hist.failed_checks = IF frame.is_valid THEN 1 ELSE 0
        /\ pc \in {"check", "undone"} =>
               /\ hist.index = frame.gene_index
               /\ hist.perturbations = SpentOnEarlierGenes + frame.attempt + 1
        /\ pc = "undone" => ~ frame.is_valid
        /\ pc = "select" =>
               /\ ~ frame.is_valid
               /\ hist.failed_checks = hist.selections * (frame.num_undo_attempts + 1)
        /\ frame.is_valid => pc \in {"check", "exit", "final", "returned"}

\* the first gene spent its budget, the second became valid on its retry
C16_Witness ==
    /\ pc = "exit"
    /\ frame.is_valid
    /\ frame.attempt = 1
    /\ hist.selections = 2
    /\ hist.perturbations = 4


\* C17: over one mutate call the increase of Config.INVALID equals the number
\* of perturbation attempts whose validity check failed.
C17_InvalidCountsEveryFailedCheck ==
    Returned => INVALID - hist.INVALID = hist.failed_checks


\* the fields of control point i that differ from the ones the call started from
ChangedFields(i) ==
    {f \in 1..4 : Road.control_nodes[i + 1][f] # hist.control_nodes[i + 1][f]}

\* C18: during the search at most one control point differs from the snapshot,
\* and after a successful mutate the control_nodes differ from it at exactly
\* one index, in exactly one of x and y; z, width and the number of control
\* points never change.
C18_SingleGeneMutation ==
    /\ InMutate =>
           /\ Len(Road.control_nodes) = Len(hist.control_nodes)
           /\ Cardinality(PerturbedIndices) <= 1
           /\ \A i \in PerturbedIndices : ChangedFields(i) \subseteq {1, 2}
    /\ (pc = "returned" /\ frame.flag) =>
           /\ Cardinality(PerturbedIndices) = 1
           /\ \A i \in PerturbedIndices : Cardinality(ChangedFields(i)) = 1


\* the most genes mutate selects and the most perturbations it applies
MostSelections == frame.n - 5

MostPerturbations == (frame.n - 5) * (frame.num_undo_attempts + 1)

WithinResources ==
    (InMutate /\ frame.n >= 5) =>
        /\ pc # "raised"
        /\ hist.selections <= MostSelections
        /\ hist.perturbations <= MostPerturbations

\* C19: on a genome with at least 7 control points, whatever the budget and
\* the validity outcomes, a call of mutate comes back with success or failure,
\* having selected at most n - 5 genes and applied at most
\* (n - 5) * (num_undo_attempts + 1) perturbations.
C19_Termination ==
    /\ []WithinResources
    /\ (InMutate /\ frame.n >= 5) ~> Returned

\* success on the very last perturbation the bound allows
C19_Witness ==
    /\ Succeeded
    /\ Len(hist.control_nodes) = 9
    /\ hist.selections = 2
    /\ hist.perturbations = 4


\* C20: every magnitude mutate applies to a coordinate lies in the inclusive
\* range [lower_bound, upper_bound] the mutator was built with.
C20_MagnitudeWithinRange ==
    (pc = "check" /\ hist.perturbations > 0) =>
        /\ mutator.lower_bound <= frame.mut_value
        /\ frame.mut_value <= mutator.higher_bound

====
